---------------------------- MODULE Spec2Model ----------------------------
(***************************************************************************)
(* Contacts API of Homework_13: the owner-scoped repository operations of  *)
(* src/src/repository/contacts.py behind the routes of                     *)
(* src/src/routes/contacts.py, over one table of contact rows.             *)
(*                                                                         *)
(* Text values are sequences of one-character strings, so that ILIKE can   *)
(* be computed character by character.  A date is a record                 *)
(* [year, month, day].  A request is one atomic step (the handler with its *)
(* commit); Respond hands the response back and frees the client.          *)
(***************************************************************************)
EXTENDS Integers, Sequences, FiniteSets, TLC

VARIABLES
    contacts,   \* the contacts table: a set of rows
    nextId,     \* the id the store gives to the next inserted row
    call,       \* the request being answered (op = "idle": none)
    result,     \* the response to call
    removed,    \* history: <<user, id>> of every successful delete
    race        \* an update and a delete of one contact in two concurrent sessions

vars == <<contacts, nextId, call, result, removed, race>>

-----------------------------------------------------------------------------
(* Bounds and input domains *)

MaxContacts == 2

MaxSkip == 1

DefaultLimit == 100

WindowDays == 7

Users == {1, 2}

Ids == 1..(MaxContacts + 1)

Skips == 0..MaxSkip

Limits == {1, DefaultLimit}

\* what the deployment's DB-API driver does with a tuple bind parameter
Drivers == {"adapts_tuple", "rejects_tuple"}

-----------------------------------------------------------------------------
(* Values *)

Date(y, m, d) == [year |-> y, month |-> m, day |-> d]

NoDate == Date(0, 0, 0)

None == [given |-> FALSE, text |-> <<>>]

Some(s) == [given |-> TRUE, text |-> s]

\* a test for None alone: "" counts as a value
TruthyNotNone(o) == o.given

\* Python truthiness of an optional string: None and "" are both false
Truthy(o) == o.given /\ o.text # <<>>

ContactModel(fn, ln, em, ph, bd) ==
    [firstname |-> fn, lastname |-> ln, email |-> em, phone |-> ph, birthday |-> bd]

NoBody == ContactModel(<<>>, <<>>, <<>>, <<>>, NoDate)

Contact(id, user, b) ==
    [id |-> id, user_id |-> user, firstname |-> b.firstname, lastname |-> b.lastname,
     email |-> b.email, phone |-> b.phone, birthday |-> b.birthday]

FieldsOf(c) == ContactModel(c.firstname, c.lastname, c.email, c.phone, c.birthday)

-----------------------------------------------------------------------------
(* Calendar: date + timedelta(days = n) *)

IsLeap(y) == (y % 4 = 0 /\ y % 100 # 0) \/ y % 400 = 0

DaysInMonth(y, m) ==
    IF m = 2 THEN (IF IsLeap(y) THEN 29 ELSE 28)
    ELSE IF m \in {4, 6, 9, 11} THEN 30 ELSE 31

NextDay(d) ==
    IF d.day < DaysInMonth(d.year, d.month) THEN Date(d.year, d.month, d.day + 1)
    ELSE IF d.month < 12 THEN Date(d.year, d.month + 1, 1)
    ELSE Date(d.year + 1, 1, 1)

RECURSIVE AddDays(_, _)
AddDays(d, n) == IF n = 0 THEN d ELSE AddDays(NextDay(d), n - 1)

-----------------------------------------------------------------------------
(* Text: ILIKE *)

Lower(ch) ==
    CASE ch = "A" -> "a" [] ch = "M" -> "m" [] ch = "N" -> "n" [] ch = "O" -> "o"
      [] ch = "P" -> "p" [] ch = "S" -> "s" [] ch = "T" -> "t"
      [] OTHER -> ch

\* s LIKE p, case-insensitive: % matches any run of characters, _ any one
RECURSIVE ILike(_, _)
ILike(s, p) ==
    IF p = <<>> THEN s = <<>>
    ELSE IF Head(p) = "%" THEN ILike(s, Tail(p)) \/ (s # <<>> /\ ILike(Tail(s), p))
    ELSE IF s = <<>> THEN FALSE
    ELSE IF Head(p) = "_" THEN ILike(Tail(s), Tail(p))
    ELSE Lower(Head(s)) = Lower(Head(p)) /\ ILike(Tail(s), Tail(p))

\* f"%{text}%"
Contains(text) == <<"%">> \o text \o <<"%">>

-----------------------------------------------------------------------------
(* Query results *)

RECURSIVE OrderById(_)
\* the rows of a result set in store order (by id)
OrderById(S) ==
    IF S = {} THEN <<>>
    ELSE LET c == CHOOSE x \in S : \A y \in S : x.id <= y.id
         IN  <<c>> \o OrderById(S \ {c})

\* .offset(skip).limit(limit)
Paginate(rows, skip, limit) ==
    LET last == IF skip + limit < Len(rows) THEN skip + limit ELSE Len(rows)
    IN  SubSeq(rows, skip + 1, last)

\* .first(): the first row as a 0- or 1-element sequence (<<>> is Python's None)
First(rows) == IF rows = <<>> THEN <<>> ELSE <<rows[1]>>

RowSet(rows) == {rows[i] : i \in 1..Len(rows)}

-----------------------------------------------------------------------------
(* Requests and responses *)

NoCall ==
    [op |-> "idle", user |-> 0, id |-> 0, body |-> NoBody, skip |-> 0, limit |-> 0,
     firstname |-> None, lastname |-> None, email |-> None, today |-> NoDate]

\* status: the HTTP status; rows: the contacts of the response body;
\* matched: the rows the query matches before offset/limit;
\* queries: how many times the handler queried the store
Response(status, rows, matched, queries) ==
    [status |-> status, rows |-> rows, matched |-> matched, queries |-> queries]

NoResult == Response(0, <<>>, <<>>, 0)

\* routes: a contact is returned with 200, None raises 404 "Contact not found"
ContactOr404(found) ==
    IF found = <<>> THEN Response(404, <<>>, <<>>, 1) ELSE Response(200, found, found, 1)

\* the id the store assigns to an inserted row: unique and increasing
NewId == nextId

-----------------------------------------------------------------------------
(* Operations *)

\* a lookup by id alone, whoever owns the row
ContactByIdAnyUser(contact_id, user) ==
    First(OrderById({c \in contacts : c.id = contact_id}))

\* db.query(Contact).filter(and_(Contact.id == contact_id,
\*                               Contact.user_id == user.id)).first()
ContactByIdAndUser(contact_id, user) ==
    First(OrderById({c \in contacts : c.id = contact_id /\ c.user_id = user}))

get_contacts(skip, limit, user) ==
    /\ call.op = "idle"
    /\ LET matched == OrderById({c \in contacts : c.user_id = user})
       IN  result' = Response(200, Paginate(matched, skip, limit), matched, 1)
    /\ call' = [NoCall EXCEPT !.op = "list", !.user = user, !.skip = skip, !.limit = limit]
    /\ UNCHANGED <<contacts, nextId, removed, race>>

get_contact(contact_id, user) ==
    /\ call.op = "idle"
    /\ LET found == ContactByIdAndUser(contact_id, user)
       IN  result' = ContactOr404(found)
    /\ call' = [NoCall EXCEPT !.op = "get", !.user = user, !.id = contact_id]
    /\ UNCHANGED <<contacts, nextId, removed, race>>

\* create_contact leaving out user = user: the row gets no owner
create_contact_no_owner(body, user) ==
    /\ call.op = "idle"
    /\ nextId <= MaxContacts
    /\ LET contact == Contact(NewId, 0, body)
       IN  /\ contacts' = contacts \cup {contact}
           /\ result' = Response(200, <<contact>>, <<contact>>, 0)
    /\ nextId' = nextId + 1
    /\ call' = [NoCall EXCEPT !.op = "create", !.user = user, !.body = body]
    /\ UNCHANGED <<removed, race>>

\* create_contact storing the first name in the lastname column as well
create_contact_swapped(body, user) ==
    /\ call.op = "idle"
    /\ nextId <= MaxContacts
    /\ LET contact == [Contact(NewId, user, body) EXCEPT !.lastname = body.firstname]
       IN  /\ contacts' = contacts \cup {contact}
           /\ result' = Response(200, <<contact>>, <<contact>>, 0)
    /\ nextId' = nextId + 1
    /\ call' = [NoCall EXCEPT !.op = "create", !.user = user, !.body = body]
    /\ UNCHANGED <<removed, race>>

create_contact(body, user) ==
    /\ call.op = "idle"
    /\ nextId <= MaxContacts
    /\ LET contact == Contact(NewId, user, body)
       IN  /\ contacts' = contacts \cup {contact}
           /\ result' = Response(200, <<contact>>, <<contact>>, 0)
    /\ nextId' = nextId + 1
    /\ call' = [NoCall EXCEPT !.op = "create", !.user = user, !.body = body]
    /\ UNCHANGED <<removed, race>>

\* The attribute assignments of update_contact: the first four right-hand
\* sides end in a comma, so each is a 1-tuple holding the body's value;
\* birthday is assigned the bare value.
Assigned(body) ==
    [firstname |-> [kind |-> "tuple",  val |-> body.firstname],
     lastname  |-> [kind |-> "tuple",  val |-> body.lastname],
     email     |-> [kind |-> "tuple",  val |-> body.email],
     phone     |-> [kind |-> "tuple",  val |-> body.phone],
     birthday  |-> [kind |-> "scalar", val |-> body.birthday]]

\* db.commit() flushes the assigned attributes as bind parameters.  A driver
\* that adapts a tuple writes a 1-tuple as the parenthesised value; a driver
\* that does not raises, and nothing is committed.
CanBind(a, drv) ==
    \A f \in DOMAIN a : a[f].kind = "tuple" => drv = "adapts_tuple"

\* update_contact inserting the row when the lookup finds none
update_contact_upsert(contact_id, body, user) ==
    /\ call.op = "idle"
    /\ \E drv \in Drivers :
       LET found == ContactByIdAndUser(contact_id, user)
           a == Assigned(body)
           old == IF found = <<>> THEN Contact(contact_id, user, body) ELSE found[1]
       IN  IF CanBind(a, drv)
           THEN LET contact == [old EXCEPT !.firstname = a.firstname.val,
                                           !.lastname = a.lastname.val,
                                           !.email = a.email.val,
                                           !.phone = a.phone.val,
                                           !.birthday = a.birthday.val]
                IN  /\ contacts' = (contacts \ RowSet(found)) \cup {contact}
                    /\ result' = ContactOr404(<<contact>>)
           ELSE /\ result' = Response(500, <<>>, <<>>, 1)
                /\ contacts' = contacts
    /\ call' = [NoCall EXCEPT !.op = "update", !.user = user, !.id = contact_id,
                              !.body = body]
    /\ UNCHANGED <<nextId, removed, race>>

update_contact(contact_id, body, user) ==
    /\ call.op = "idle"
    /\ \E drv \in Drivers :
       LET found == ContactByIdAndUser(contact_id, user)
           a == Assigned(body)
       IN  IF found = <<>>
           THEN /\ result' = ContactOr404(found)
                /\ contacts' = contacts
           ELSE IF CanBind(a, drv)
           THEN LET contact == [found[1] EXCEPT !.firstname = a.firstname.val,
                                                !.lastname = a.lastname.val,
                                                !.email = a.email.val,
                                                !.phone = a.phone.val,
                                                !.birthday = a.birthday.val]
                IN  /\ contacts' = (contacts \ {found[1]}) \cup {contact}
                    /\ result' = ContactOr404(<<contact>>)
           ELSE /\ result' = Response(500, <<>>, <<>>, 1)
                /\ contacts' = contacts
    /\ call' = [NoCall EXCEPT !.op = "update", !.user = user, !.id = contact_id,
                              !.body = body]
    /\ UNCHANGED <<nextId, removed, race>>

\* remove_contact looking the row up by id alone
remove_contact_any_owner(contact_id, user) ==
    /\ call.op = "idle"
    /\ LET found == First(OrderById({c \in contacts : c.id = contact_id}))
       IN  /\ contacts' = contacts \ RowSet(found)
           /\ removed' = IF found = <<>> THEN removed
                         ELSE removed \cup {<<user, contact_id>>}
           /\ result' = ContactOr404(found)
    /\ call' = [NoCall EXCEPT !.op = "delete", !.user = user, !.id = contact_id]
    /\ UNCHANGED <<nextId, race>>

remove_contact(contact_id, user) ==
    /\ call.op = "idle"
    /\ LET found == ContactByIdAndUser(contact_id, user)
       IN  /\ contacts' = contacts \ RowSet(found)
           /\ removed' = IF found = <<>> THEN removed
                         ELSE removed \cup {<<user, contact_id>>}
           /\ result' = ContactOr404(found)
    /\ call' = [NoCall EXCEPT !.op = "delete", !.user = user, !.id = contact_id]
    /\ UNCHANGED <<nextId, race>>

\* filters.append(Contact.<field>.ilike(f"%{value}%")) for each truthy value
Filters(firstname, lastname, email) ==
    (IF Truthy(firstname)
        THEN <<[field |-> "firstname", pattern |-> Contains(firstname.text)]>> ELSE <<>>)
    \o (IF Truthy(lastname)
        THEN <<[field |-> "lastname", pattern |-> Contains(lastname.text)]>> ELSE <<>>)
    \o (IF Truthy(email)
        THEN <<[field |-> "email", pattern |-> Contains(email.text)]>> ELSE <<>>)

\* search_contacts without the "no criteria" check
search_contacts_unguarded(skip, limit, firstname, lastname, email, user) ==
    /\ call.op = "idle"
    /\ LET filters == Filters(firstname, lastname, email)
           matched == OrderById({c \in contacts :
                          /\ \A i \in 1..Len(filters) :
                                ILike(c[filters[i].field], filters[i].pattern)
                          /\ c.user_id = user})
       IN  result' = Response(200, Paginate(matched, skip, limit), matched, 1)
    /\ call' = [NoCall EXCEPT !.op = "search", !.user = user, !.skip = skip,
                              !.limit = limit, !.firstname = firstname,
                              !.lastname = lastname, !.email = email]
    /\ UNCHANGED <<contacts, nextId, removed, race>>

\* what search_contacts answers on the current store: 400 "Search criteria are not
\* specified" when no filter was appended, else the page of the owner's rows
\* that match every filter
SearchResponse(skip, limit, firstname, lastname, email, user) ==
    LET filters == Filters(firstname, lastname, email)
        matched == OrderById({c \in contacts :
                       /\ \A i \in 1..Len(filters) :
                             ILike(c[filters[i].field], filters[i].pattern)
                       /\ c.user_id = user})
    IN  IF filters = <<>>
        THEN Response(400, <<>>, <<>>, 0)
        ELSE Response(200, Paginate(matched, skip, limit), matched, 1)

search_contacts(skip, limit, firstname, lastname, email, user) ==
    /\ call.op = "idle"
    /\ result' = SearchResponse(skip, limit, firstname, lastname, email, user)
    /\ call' = [NoCall EXCEPT !.op = "search", !.user = user, !.skip = skip,
                              !.limit = limit, !.firstname = firstname,
                              !.lastname = lastname, !.email = email]
    /\ UNCHANGED <<contacts, nextId, removed, race>>

\* dates in calendar order
DateLeq(a, b) ==
    \/ a.year < b.year
    \/ a.year = b.year /\ a.month < b.month
    \/ a.year = b.year /\ a.month = b.month /\ a.day <= b.day

\* Contact.birthday.between(today, seven_days_later): whole dates, year included
BirthdayFilterBetween(birthday, today, seven_days_later) ==
    DateLeq(today, birthday) /\ DateLeq(birthday, seven_days_later)

\* the filter with a Feb 29 birthday moved to Feb 28 when today's year has
\* no Feb 29
BirthdayFilterLeapSubst(birthday, today, seven_days_later) ==
    LET day == IF birthday.month = 2 /\ birthday.day = 29 /\ ~IsLeap(today.year)
               THEN 28 ELSE birthday.day
    IN  /\ (birthday.month = today.month /\ day >= today.day)
        /\ (birthday.month = seven_days_later.month /\ day <= seven_days_later.day)

\* the filter of get_upcoming_birthdays on one birthday
BirthdayFilter(birthday, today, seven_days_later) ==
    /\ (birthday.month = today.month /\ birthday.day >= today.day)
    /\ (birthday.month = seven_days_later.month /\ birthday.day <= seven_days_later.day)

\* today is date.today(), the day of the request
get_upcoming_birthdays(skip, limit, user, today) ==
    /\ call.op = "idle"
    /\ LET seven_days_later == AddDays(today, WindowDays)
           results == OrderById({c \in contacts :
                          BirthdayFilter(c.birthday, today, seven_days_later)})
       IN  result' = Response(200, results, results, 1)
    /\ call' = [NoCall EXCEPT !.op = "birthdays", !.user = user, !.skip = skip,
                              !.limit = limit, !.today = today]
    /\ UNCHANGED <<contacts, nextId, removed, race>>

\* the response leaves the server; the next request can be taken
Respond ==
    /\ call.op # "idle"
    /\ call' = NoCall
    /\ result' = NoResult
    /\ UNCHANGED <<contacts, nextId, removed, race>>

-----------------------------------------------------------------------------
(* Two concurrent sessions: PUT and DELETE of the same /contacts/{id} *)

\* one request's session: pc is "idle", "lookup" (before its query),
\* "commit" (row loaded, before its commit) or "done"; found is the row its
\* query loaded; status and rows are its response
Session(pc, found, status, rows) ==
    [pc |-> pc, found |-> found, status |-> status, rows |-> rows]

\* before: the row as stored when the two requests arrived (history);
\* log: the steps taken so far, in order (history)
NoRace ==
    [id |-> 0, user |-> 0, body |-> NoBody, drv |-> "adapts_tuple", before |-> <<>>,
     upd |-> Session("idle", <<>>, 0, <<>>), del |-> Session("idle", <<>>, 0, <<>>),
     log |-> <<>>]

\* the same user sends update_contact and remove_contact for one id
concurrent_requests(contact_id, body, user, drv) ==
    /\ race.upd.pc = "idle"
    /\ race.del.pc = "idle"
    /\ call.op = "idle"
    /\ race' = [NoRace EXCEPT !.id = contact_id, !.user = user, !.body = body,
                              !.drv = drv,
                              !.before = ContactByIdAndUser(contact_id, user),
                              !.upd.pc = "lookup", !.del.pc = "lookup"]
    /\ UNCHANGED <<contacts, nextId, call, result, removed>>

\* update_contact, line 82: the query
update_contact_lookup ==
    /\ race.upd.pc = "lookup"
    /\ LET found == ContactByIdAndUser(race.id, race.user)
       IN  race' = [race EXCEPT
                      !.upd = IF found = <<>>
                              THEN Session("done", found, ContactOr404(found).status, found)
                              ELSE Session("commit", found, 0, <<>>),
                      !.log = Append(@, "update_lookup")]
    /\ UNCHANGED <<contacts, nextId, call, result, removed>>

\* update_contact, lines 83-90 on a loaded row: the assignments and the
\* commit, which flushes UPDATE contacts SET ... WHERE id = <the loaded id>.
\* The commit raises when the driver cannot bind the parameters, and when
\* the UPDATE matches no row (the ORM's StaleDataError); otherwise the row
\* is written.
update_contact_commit ==
    /\ race.upd.pc = "commit"
    /\ LET a == Assigned(race.body)
           stored == {c \in contacts : c.id = race.upd.found[1].id}
           written == {[c EXCEPT !.firstname = a.firstname.val,
                                 !.lastname = a.lastname.val,
                                 !.email = a.email.val,
                                 !.phone = a.phone.val,
                                 !.birthday = a.birthday.val] : c \in stored}
       IN  IF CanBind(a, race.drv) /\ stored # {}
           THEN /\ contacts' = (contacts \ stored) \cup written
                /\ race' = [race EXCEPT
                               !.upd = Session("done", @.found, 200, OrderById(written)),
                               !.log = Append(@, "update_commit")]
           ELSE /\ contacts' = contacts
                /\ race' = [race EXCEPT
                               !.upd = Session("done", @.found, 500, <<>>),
                               !.log = Append(@, "update_commit")]
    /\ UNCHANGED <<nextId, call, result, removed>>

\* remove_contact, line 107: the query
remove_contact_lookup ==
    /\ race.del.pc = "lookup"
    /\ LET found == ContactByIdAndUser(race.id, race.user)
       IN  race' = [race EXCEPT
                      !.del = IF found = <<>>
                              THEN Session("done", found, ContactOr404(found).status, found)
                              ELSE Session("commit", found, 0, <<>>),
                      !.log = Append(@, "remove_lookup")]
    /\ UNCHANGED <<contacts, nextId, call, result, removed>>

\* remove_contact, lines 108-111 on a loaded row: db.delete(contact) and the
\* commit, which flushes DELETE FROM contacts WHERE id = <the loaded id>;
\* the loaded row is returned
remove_contact_commit ==
    /\ race.del.pc = "commit"
    /\ contacts' = {c \in contacts : c.id # race.del.found[1].id}
    /\ removed' = removed \cup {<<race.user, race.id>>}
    /\ race' = [race EXCEPT
                   !.del = Session("done", @.found, ContactOr404(@.found).status, @.found),
                   !.log = Append(@, "remove_commit")]
    /\ UNCHANGED <<nextId, call, result>>

-----------------------------------------------------------------------------
(* Inputs of the requests *)

CrudBodies ==
    {ContactModel(<<"S","p">>, <<"M","a">>, <<"s","@","m">>, <<"1","2">>, Date(1990, 3, 5)),
     ContactModel(<<"T","o">>, <<"S","t">>, <<"t","@","m">>, <<"0","9">>, Date(1973, 12, 30)),
     ContactModel(<<"S","p">>, <<"S","t">>, <<"s","@","m">>, <<"1","2">>, Date(2000, 1, 2))}

CrudFirstnames == {None, Some(<<"s">>)}

CrudLastnames == {None, Some(<<"S","T">>)}

CrudTodays == {Date(2024, 3, 1), Date(2024, 12, 28)}

SearchBodies ==
    {ContactModel(<<"S","p">>, <<"M","a","n">>, <<"s","p","@","m">>, <<"1">>, Date(1990, 3, 5)),
     ContactModel(<<"T","o">>, <<"S","t">>, <<"s","t","@","m">>, <<"1">>, Date(1990, 3, 5)),
     ContactModel(<<"S","t","o">>, <<"M","a","n">>, <<"s","_","t","@","m">>, <<"1">>,
                  Date(1990, 3, 5))}

SearchFirstnames == {None, Some(<<>>), Some(<<"s">>), Some(<<"_">>)}

SearchLastnames == {None, Some(<<>>), Some(<<"M","A","N">>), Some(<<"%">>)}

SearchEmails == {None, Some(<<>>), Some(<<"T","@">>), Some(<<"s","_">>)}

BornOn(bd) == ContactModel(<<"S","p">>, <<"M","a">>, <<"s","@","m">>, <<"1">>, bd)

Birthdays ==
    {Date(1990, 12, 30), Date(2000, 1, 2), Date(1973, 1, 10), Date(1985, 3, 5),
     Date(2024, 3, 5), Date(1973, 3, 10), Date(2000, 2, 29)}

MonthOf(y, m) == {Date(y, m, d) : d \in 1..DaysInMonth(y, m)}

WindowTodays ==
    MonthOf(2023, 2) \cup MonthOf(2024, 2) \cup MonthOf(2024, 3) \cup MonthOf(2024, 12)

-----------------------------------------------------------------------------
(* Specifications *)

Init ==
    /\ contacts = {}
    /\ nextId = 1
    /\ call = NoCall
    /\ result = NoResult
    /\ removed = {}
    /\ race = NoRace

\* every operation, on contacts that differ in every field
Next ==
    \/ \E u \in Users, skip \in Skips, limit \in Limits : get_contacts(skip, limit, u)
    \/ \E u \in Users, id \in Ids : get_contact(id, u)
    \/ \E u \in Users, b \in CrudBodies : create_contact(b, u)
    \/ \E u \in Users, id \in Ids, b \in CrudBodies : update_contact(id, b, u)
    \/ \E u \in Users, id \in Ids : remove_contact(id, u)
    \/ \E u \in Users, fn \in CrudFirstnames, ln \in CrudLastnames :
          search_contacts(0, DefaultLimit, fn, ln, None, u)
    \/ \E u \in Users, skip \in Skips, today \in CrudTodays :
          get_upcoming_birthdays(skip, DefaultLimit, u, today)
    \/ Respond

Spec == Init /\ [][Next]_vars

\* search over every combination of absent, empty, plain and wildcard filters
NextSearch ==
    \/ \E u \in Users, b \in SearchBodies : create_contact(b, u)
    \/ \E u \in Users, skip \in Skips,
          fn \in SearchFirstnames, ln \in SearchLastnames, em \in SearchEmails :
          search_contacts(skip, DefaultLimit, fn, ln, em, u)
    \/ Respond

SpecSearch == Init /\ [][NextSearch]_vars

\* upcoming birthdays on every day of four months, leap and non-leap February
NextBirthdays ==
    \/ \E u \in Users, bd \in Birthdays : create_contact(BornOn(bd), u)
    \/ \E u \in Users, today \in WindowTodays :
          get_upcoming_birthdays(0, DefaultLimit, u, today)
    \/ Respond

SpecBirthdays == Init /\ [][NextBirthdays]_vars

\* contacts are created, then one update and one delete of the same id run
\* with their queries and commits interleaved in every order
NextRace ==
    \/ \E u \in Users, b \in CrudBodies : create_contact(b, u)
    \/ Respond
    \/ \E u \in Users, id \in Ids, b \in CrudBodies, drv \in Drivers :
          concurrent_requests(id, b, u, drv)
    \/ update_contact_lookup
    \/ update_contact_commit
    \/ remove_contact_lookup
    \/ remove_contact_commit

SpecRace == Init /\ [][NextRace]_vars

-----------------------------------------------------------------------------
(* Properties *)

\* the response of a lookup that finds nothing: 404, no contact
NotFoundOutcome == [status |-> 404, rows |-> <<>>, matched |-> <<>>, queries |-> 1]

OwnedBy(user) == {c \in contacts : c.user_id = user}

StoredIds == {c.id : c \in contacts}

\* C1: get, update and delete of a contact by a user who does not own it
\* answer not-found, exactly as they do for an id no contact has, and leave
\* the contact in the store as it was.
OwnershipIsolation ==
    [][call'.op \in {"get", "update", "delete"} =>
         /\ \A c \in contacts :
               (call'.id = c.id /\ call'.user # c.user_id) =>
                   (result' = NotFoundOutcome /\ c \in contacts')
         /\ call'.id \notin StoredIds => result' = NotFoundOutcome]_vars

\* an update addressed to another user's contact was answered not-found
OwnershipIsolationWitness ==
    /\ call.op = "update"
    /\ result.status = 404
    /\ \E c \in contacts : c.id = call.id /\ c.user_id # call.user
                           /\ FieldsOf(c) # call.body

\* C2: upcomingBirthdays returns only contacts of the requesting user.
BirthdaysScopedToOwner ==
    call.op = "birthdays" =>
        \A i \in 1..Len(result.rows) : result.rows[i].user_id = call.user

WindowEnd(today) == AddDays(today, WindowDays)

\* C3: when today and today + 7 days lie in different months, a contact of
\* the owner is returned exactly when its birthday is in today's month on or
\* after today's day, or in the end's month on or before the end's day.
CrossMonthWindow ==
    (call.op = "birthdays" /\ call.today.month # WindowEnd(call.today).month) =>
        \A c \in OwnedBy(call.user) :
            c \in RowSet(result.rows) <=>
                \/ (c.birthday.month = call.today.month
                    /\ c.birthday.day >= call.today.day)
                \/ (c.birthday.month = WindowEnd(call.today).month
                    /\ c.birthday.day <= WindowEnd(call.today).day)

\* C4: when today and today + 7 days lie in the same month, a contact of the
\* owner is returned exactly when its birthday is in that month with
\* today.day <= day <= end.day, and two contacts with the same month and day
\* of birth are returned or left out together, whatever their years.
SameMonthWindow ==
    (call.op = "birthdays" /\ call.today.month = WindowEnd(call.today).month) =>
        /\ \A c \in OwnedBy(call.user) :
              c \in RowSet(result.rows) <=>
                  /\ c.birthday.month = call.today.month
                  /\ call.today.day <= c.birthday.day
                  /\ c.birthday.day <= WindowEnd(call.today).day
        /\ \A c, d \in OwnedBy(call.user) :
              (c.birthday.month = d.birthday.month /\ c.birthday.day = d.birthday.day)
                  => (c \in RowSet(result.rows) <=> d \in RowSet(result.rows))

\* on 2024-03-01 the owner's contact born on a 5th of March of another year
\* is returned and the one born on a 10th of March is not
SameMonthWindowWitness ==
    /\ call.op = "birthdays"
    /\ call.today = Date(2024, 3, 1)
    /\ \E c, d \in OwnedBy(call.user) :
          /\ c.birthday = Date(1985, 3, 5) /\ c \in RowSet(result.rows)
          /\ d.birthday = Date(1973, 3, 10) /\ d \notin RowSet(result.rows)

\* C5: a search with firstname, lastname and email all absent is refused
\* with 400 before the store is queried, and returns no contact.
SearchRequiresCriteria ==
    (call.op = "search" /\ ~call.firstname.given /\ ~call.lastname.given
        /\ ~call.email.given) =>
        (result.status = 400 /\ result.queries = 0 /\ result.rows = <<>>)

\* a search without criteria was refused although the user has contacts
SearchRequiresCriteriaWitness ==
    /\ call.op = "search"
    /\ ~call.firstname.given /\ ~call.lastname.given /\ ~call.email.given
    /\ call.skip = 0
    /\ OwnedBy(call.user) # {}
    /\ result.status = 400

\* text is a substring of field, letter case ignored
IsSubstring(text, field) ==
    \E k \in 0..(Len(field) - Len(text)) :
        \A j \in 1..Len(text) : Lower(field[k + j]) = Lower(text[j])

\* C6: a search with at least one (non-empty) filter matches, before
\* pagination, exactly the owner's contacts in which every given filter is a
\* case-insensitive substring of its field.
SearchIsSubstringAnd ==
    (call.op = "search"
        /\ (Truthy(call.firstname) \/ Truthy(call.lastname) \/ Truthy(call.email))) =>
        /\ result.status = 200
        /\ RowSet(result.matched) =
              {c \in OwnedBy(call.user) :
                  /\ call.firstname.given => IsSubstring(call.firstname.text, c.firstname)
                  /\ call.lastname.given => IsSubstring(call.lastname.text, c.lastname)
                  /\ call.email.given => IsSubstring(call.email.text, c.email)}

\* C7: after update(owner, id, f) of a contact that exists under owner, the
\* stored contact carries exactly the five values of f, and so does the
\* returned record and a following get(owner, id).
UpdateReplacesAllFields ==
    (call.op = "update"
        /\ \E c \in contacts : c.id = call.id /\ c.user_id = call.user) =>
        /\ result.status = 200
        /\ result.rows = <<Contact(call.id, call.user, call.body)>>
        /\ ContactByIdAndUser(call.id, call.user)
              = <<Contact(call.id, call.user, call.body)>>

\* the response of a create is the body with an id, and a get of that id by
\* the same user finds that record
CreatedIsReadBack ==
    /\ result.status = 200
    /\ Len(result.rows) = 1
    /\ FieldsOf(result.rows[1]) = call.body
    /\ ContactByIdAndUser(result.rows[1].id, call.user) = result.rows
    /\ ContactOr404(ContactByIdAndUser(result.rows[1].id, call.user)).status = 200

\* C8: create(owner, f) returns f with a generated id that no stored contact
\* had, and a following get(owner, id) returns that same record.
CreateReadRoundTrip ==
    [][call'.op = "create" =>
          (CreatedIsReadBack' /\ result'.rows[1].id \notin StoredIds)]_vars

\* a second contact was created: its id is new and a get finds it
CreateReadRoundTripWitness ==
    /\ call.op = "create"
    /\ Cardinality(contacts) = 2
    /\ result.rows[1].id = 2
    /\ ContactByIdAndUser(2, call.user) = result.rows

\* C9: a successful delete returns the contact as it was stored, and from
\* then on every get, update and delete of that id by the same owner answers
\* not-found and the id stays out of the store.
DeleteIsTerminal ==
    [][/\ (call'.op = "delete" /\ result'.status = 200) =>
              \E c \in contacts :
                  /\ c.id = call'.id /\ c.user_id = call'.user
                  /\ result'.rows = <<c>>
                  /\ c \notin contacts'
       /\ \A p \in removed :
              (call'.op \in {"get", "update", "delete"}
                  /\ call'.user = p[1] /\ call'.id = p[2]) =>
                  (result' = NotFoundOutcome /\ p[2] \notin StoredIds')
      ]_vars

\* the owner updated a contact they had deleted and got not-found
DeleteIsTerminalWitness ==
    /\ call.op = "update"
    /\ <<call.user, call.id>> \in removed
    /\ result.status = 404
    /\ contacts # {}

\* C10: update and delete of an id that does not resolve under the owner
\* answer not-found and leave the store exactly as it was.
NoImplicitCreation ==
    [][(call'.op \in {"update", "delete"}
          /\ ~ \E c \in contacts : c.id = call'.id /\ c.user_id = call'.user) =>
          (result' = NotFoundOutcome /\ contacts' = contacts)]_vars

\* a delete of an id that no contact has was answered not-found
NoImplicitCreationWitness ==
    /\ call.op = "delete"
    /\ call.id \notin StoredIds
    /\ contacts # {}
    /\ result.status = 404

\* C11: every stored contact has exactly one owner, a row enters the store
\* only through create and then belongs to the creating user, and no
\* operation changes the id or the owner of a stored contact.
OwnershipInvariant ==
    [][/\ \A c \in contacts' :
             /\ c.user_id \in Users
             /\ \A d \in contacts' : d.id = c.id => d = c
       /\ \A c \in contacts, d \in contacts' : d.id = c.id => d.user_id = c.user_id
       /\ \A d \in contacts' :
             d.id \notin StoredIds =>
                 (call'.op = "create" /\ d.user_id = call'.user
                     /\ contacts' = contacts \cup {d})
       /\ call'.op \in {"list", "get", "search", "birthdays"} => contacts' = contacts
       /\ call'.op = "update" => StoredIds' = StoredIds
       /\ call'.op = "delete" => contacts' \subseteq contacts
      ]_vars

\* an owner's update went through while the other user also has a contact
OwnershipInvariantWitness ==
    /\ call.op = "update"
    /\ result.status = 200
    /\ FieldsOf(result.rows[1]) = call.body
    /\ \E c, d \in contacts :
          /\ c.id = call.id /\ c.user_id = call.user
          /\ d.user_id # call.user

\* the place of a step in the log of the two sessions (0: not taken)
Pos(step) ==
    IF \E i \in 1..Len(race.log) : race.log[i] = step
    THEN CHOOSE i \in 1..Len(race.log) : race.log[i] = step
    ELSE 0

\* C12: an update and a delete of the same existing contact, their queries
\* and commits interleaved, end in one of two ways: the delete committed
\* first and the update reports not-found, or the update committed first and
\* the delete then removed the updated contact; no other error, and the
\* contact is not stored once the delete reported success.  (Stated for a
\* driver on which an update can commit at all.)
RaceTwoOutcomes ==
    (race.upd.pc = "done" /\ race.del.pc = "done" /\ race.before # <<>>
        /\ race.drv = "adapts_tuple") =>
        /\ race.del.status = 200 => race.id \notin StoredIds
        /\ \/ (race.del.status = 200 /\ race.upd.status = 404
                 /\ Pos("remove_commit") < Pos("update_lookup"))
           \/ (race.upd.status = 200 /\ race.del.status = 200
                 /\ Pos("update_commit") < Pos("remove_commit"))

\* the window [today, today + 7 days] holds a Feb 29
LeapDayInWindow(today) ==
    \E k \in 0..WindowDays :
        AddDays(today, k).month = 2 /\ AddDays(today, k).day = 29

\* C13: in leap and non-leap years alike, get_upcoming_birthdays returns a
\* contact born on Feb 29 only when Feb 29 is one of the dates of
\* [today, today + 7 days]; in a year without a Feb 29 it is returned on no
\* day, neither as Feb 28 nor as Mar 1.
LeapDayOnlyOnItsDate ==
    call.op = "birthdays" =>
        \A i \in 1..Len(result.rows) :
            (result.rows[i].birthday.month = 2 /\ result.rows[i].birthday.day = 29)
                => LeapDayInWindow(call.today)

LeapDayOnlyOnItsDateWitness ==
    /\ call.op = "birthdays"
    /\ IsLeap(call.today.year)
    /\ LeapDayInWindow(call.today)
    /\ \E i \in 1..Len(result.rows) :
          result.rows[i].birthday.month = 2 /\ result.rows[i].birthday.day = 29

\* a filter given as "" replaced by the absent filter
Norm(o) == IF o = Some(<<>>) THEN None ELSE o

\* C14: search answers a call with a filter given as "" exactly as the same
\* call with that filter absent, whatever the owner, skip, limit and store:
\* a call whose filters are all "" or absent gets the 400 no-criteria error,
\* and an empty filter beside a non-empty one does not restrict the result.
EmptyFilterIsAbsent ==
    call.op = "search" =>
        /\ call.firstname = Some(<<>>) =>
              result = SearchResponse(call.skip, call.limit, None, call.lastname,
                                      call.email, call.user)
        /\ call.lastname = Some(<<>>) =>
              result = SearchResponse(call.skip, call.limit, call.firstname, None,
                                      call.email, call.user)
        /\ call.email = Some(<<>>) =>
              result = SearchResponse(call.skip, call.limit, call.firstname,
                                      call.lastname, None, call.user)
        /\ result = SearchResponse(call.skip, call.limit, Norm(call.firstname),
                                   Norm(call.lastname), Norm(call.email), call.user)
        /\ (\A f \in {call.firstname, call.lastname, call.email} : Norm(f) = None)
              => result.status = 400

EmptyFilterIsAbsentWitness ==
    /\ call.op = "search"
    /\ call.firstname = Some(<<>>)
    /\ call.lastname # None /\ call.lastname # Some(<<>>)
    /\ result.status = 200
    /\ result.rows # <<>>
    /\ \E c \in contacts : c.user_id = call.user /\ c \notin RowSet(result.matched)

=============================================================================
